---- MODULE Spec2Model ----
(***************************************************************************)
(* A model of when.js 3.0.0: function.js (lift, call, apply, compose) and  *)
(* the combinator wrappers of when.js (all, any, some, ...).               *)
(*                                                                         *)
(* The promise primitive (lib/Promise, lib/array) is not part of the       *)
(* source at hand; Promise.all, Promise.any, Promise.some and              *)
(* Promise.reduce are modelled from the written specification.             *)
(***************************************************************************)
EXTENDS Integers, Sequences, FiniteSets, TLC

(* ---------------------------- bounds ----------------------------------- *)
NumValues   == 2    \* distinct plain values / rejection reasons
NumFutures  == 2    \* futures created by the caller
MaxCalls    == 2    \* calls of a lifted function, of call or of apply in one run
MaxComposed == 1    \* calls of a composed function in one run
MaxBound    == 1    \* bound arguments given to lift
MaxCallArgs == 1    \* arguments of one call
MaxFuncs    == 2    \* functions of compose after the first one

Values    == 1..NumValues
FutureIds == 1..NumFutures

\* the function object `func` itself, when it travels as a value
FuncVal == 0

(* ------------------------- values and futures -------------------------- *)
\* An argument is a bare value or a reference to a caller-made future.
Bare(v) == [fut |-> FALSE, x |-> v]
Fut(i)  == [fut |-> TRUE,  x |-> i]
Args    == {Bare(v) : v \in Values} \cup {Fut(i) : i \in FutureIds}

RECURSIVE SeqsUpTo(_, _)
SeqsUpTo(S, n) ==
    IF n = 0 THEN {<<>>}
    ELSE LET shorter == SeqsUpTo(S, n - 1)
         IN  shorter \cup {Append(s, e) : s \in {q \in shorter : Len(q) = n - 1}, e \in S}

\* A settled promise holds a value: a scalar, or an array of scalars.
Scalar(v) == [list |-> FALSE, items |-> <<v>>]
List(s)   == [list |-> TRUE,  items |-> s]

PendingP      == [state |-> "pending",   val |-> Scalar(0)]
FulfilledP(v) == [state |-> "fulfilled", val |-> v]
RejectedP(r)  == [state |-> "rejected",  val |-> r]

VARIABLES
    fut,        \* caller-made futures: state, value/reason, settlement time
    api,        \* which function of function.js the run exercises
    boundArgs,  \* the arguments lift was given after func
    liftArgs,   \* the array `args` captured by the closure lift returns
    nFuncs,     \* number of functions compose was given after f
    calls,      \* the calls made so far, each with its result future
    op,         \* which combinator of when.js the run exercises
    inputs,     \* the array the combinator is given, or is given a future for
    howMany,    \* the second argument of some
    outer,      \* the promise resolve(promises) that `when` observes
    racing,     \* whether the onFulfilled callback of `when` has run
    result,     \* the promise the combinator returned
    initial,    \* the initialValue reduce or reduceRight is given, if any
    trace,      \* the invocations made of the user function f or mapFunc
    deferreds,  \* the pairs defer() has returned: the promise and the calls of its handles
    probes      \* the calls of isPromiseLike made so far, with what they returned

fnVars  == <<api, boundArgs, liftArgs, nFuncs, calls>>
foldVars == <<initial, trace>>
arrVars  == <<op, inputs, howMany, outer, racing, result, foldVars>>
auxVars == <<deferreds, probes>>
vars    == <<fut, fnVars, arrVars, auxVars>>

\* the value (or reason) future i settles with: the futures carry distinct
\* values as far as there are values
ValueOf(i) == 1 + ((i - 1) % NumValues)

\* number of futures settled so far: the clock of settlement times
Clock == Cardinality({i \in FutureIds : fut[i].state # "pending"})

\* resolve(x): the state of the promise for x
Resolve(a) ==
    IF a.fut THEN [state |-> fut[a.x].state, val |-> Scalar(fut[a.x].val)]
    ELSE FulfilledP(Scalar(a.x))

\* settlement time of an element; a bare value is settled from the start
TimeOf(a) == IF a.fut THEN fut[a.x].t ELSE 0

(* ----------------------- Promise.all (lib/array) ----------------------- *)
\* Rejects with the reason of the element that rejected first in time,
\* fulfills with the index-aligned values once every element has fulfilled.
PromiseAll(array) ==
    LET idx      == 1..Len(array)
        rejected == {i \in idx : Resolve(array[i]).state = "rejected"}
    IN  IF rejected # {}
        THEN LET first == CHOOSE i \in rejected :
                             \A j \in rejected : TimeOf(array[i]) <= TimeOf(array[j])
             IN  RejectedP(Resolve(array[first]).val)
        ELSE IF \A i \in idx : Resolve(array[i]).state = "fulfilled"
        THEN FulfilledP(List([i \in idx |-> Resolve(array[i]).val.items[1]]))
        ELSE PendingP

(* ------------------------------ function.js ---------------------------- *)
\* What a user function does when invoked: return a plain value, return a
\* future, or throw.  The value is a function of the arguments it received.
OutKinds == {"value", "future", "throw"}

RECURSIVE Sum(_)
Sum(s) == IF s = <<>> THEN 0 ELSE Head(s) + Sum(Tail(s))

Outcome(kind, args) ==
    CASE kind = "value"  -> [kind |-> "ret",   a |-> Bare(1 + (Sum(args) % NumValues))]
      [] kind = "future" -> [kind |-> "ret",   a |-> Fut(1 + (Sum(args) % NumFutures))]
      [] kind = "throw"  -> [kind |-> "throw", a |-> Bare(1 + (Sum(args) % NumValues))]

\* the promise `then` derives from what its callback did
ThenResult(out) ==
    IF out.kind = "throw" THEN RejectedP(Scalar(out.a.x)) ELSE Resolve(out.a)

\* _apply with func invoked outside the promise chain: an exception it throws
\* is not turned into a rejection and the promise never settles
_applyUncaught(argv, log) ==
    IF log # <<>>
    THEN IF log[1].out.kind = "throw" THEN PendingP ELSE ThenResult(log[1].out)
    ELSE IF PromiseAll(argv).state = "rejected" THEN PromiseAll(argv)
    ELSE PendingP

\* _apply(func, thisArg, args):
\*   Promise.all(args).then(function(args) { return func.apply(thisArg, args) })
\* `log` holds the invocation made by the callback, if it has run.
_apply(argv, log) ==
    IF log # <<>> THEN ThenResult(log[1].out)
    ELSE IF PromiseAll(argv).state = "rejected" THEN PromiseAll(argv)
    ELSE PendingP

\* tryCall(f, ...args): _apply(f, this, slice.call(arguments, 1))
tryCall(arguments) == [func |-> Head(arguments).x, argv |-> Tail(arguments)]

\* a call that runs func at once when no argument has to be awaited
NewCallSync(via, given, tc) ==
    [via |-> via, given |-> given, func |-> tc.func, argv |-> tc.argv,
     log |-> IF \A i \in 1..Len(tc.argv) : ~tc.argv[i].fut
             THEN <<[stage |-> 0, args |-> [i \in 1..Len(tc.argv) |-> tc.argv[i].x],
                     out |-> Outcome("value", [i \in 1..Len(tc.argv) |-> tc.argv[i].x])]>>
             ELSE <<>>,
     reducing |-> FALSE, steps |-> <<>>, res |-> PendingP]

\* the record of a call: the promise _apply returns is pending and func has
\* not been invoked when the call returns
NewCall(via, given, tc) ==
    [via |-> via, given |-> given, func |-> tc.func, argv |-> tc.argv,
     log |-> <<>>, reducing |-> FALSE, steps |-> <<>>, res |-> PendingP]

\* lift's closure: args.unshift(func); args.push.apply(args, slice.call(arguments))
liftClosureArgs(args, arguments) == <<Bare(FuncVal)>> \o args \o arguments

\* g(...callArgs) for g = lift(func, ...boundArgs)
lift(callArgs) ==
    /\ api = "lift"
    /\ Len(calls) < MaxCalls
    /\ liftArgs' = liftClosureArgs(liftArgs, callArgs)
    /\ calls' = Append(calls, NewCall("lift", callArgs, tryCall(liftArgs')))
    /\ UNCHANGED <<fut, api, boundArgs, nFuncs, arrVars, auxVars>>

\* call(func, ...callArgs): when.try
call(callArgs) ==
    /\ api = "call"
    /\ Len(calls) < MaxCalls
    /\ calls' = Append(calls, NewCall("call", callArgs, tryCall(<<Bare(FuncVal)>> \o callArgs)))
    /\ UNCHANGED <<fut, api, boundArgs, liftArgs, nFuncs, arrVars, auxVars>>

\* apply forgetting the array
applyArgumentsDropped(hasArgs, promisedArgs) == <<Bare(FuncVal)>>

\* apply(func, promisedArgs): arguments.length > 1
\*   ? tryCall.apply(this, [func].concat(promisedArgs)) : tryCall.call(this, func)
applyArguments(hasArgs, promisedArgs) ==
    IF hasArgs THEN <<Bare(FuncVal)>> \o promisedArgs ELSE <<Bare(FuncVal)>>

apply(hasArgs, promisedArgs) ==
    /\ api = "apply"
    /\ Len(calls) < MaxCalls
    /\ hasArgs \/ promisedArgs = <<>>
    /\ calls' = Append(calls, NewCall("apply", promisedArgs,
                                      tryCall(applyArguments(hasArgs, promisedArgs))))
    /\ UNCHANGED <<fut, api, boundArgs, liftArgs, nFuncs, arrVars, auxVars>>

\* h(...args) for h = compose(f, ...funcs):
\*   firstPromise = when['try'].apply(thisArg, [f].concat(args))
compose(callArgs) ==
    /\ api = "compose"
    /\ Len(calls) < MaxComposed
    /\ calls' = Append(calls, NewCall("compose", callArgs, tryCall(<<Bare(FuncVal)>> \o callArgs)))
    /\ UNCHANGED <<fut, api, boundArgs, liftArgs, nFuncs, arrVars, auxVars>>

\* a caller-made future settles with the value, or the reason, it stands for
SettleFuture(i, st) ==
    /\ fut[i].state = "pending"
    /\ fut' = [fut EXCEPT ![i] = [state |-> st, val |-> ValueOf(i), t |-> Clock + 1]]
    /\ UNCHANGED <<fnVars, arrVars, auxVars>>

\* the callback of _apply runs: func.apply(thisArg, args)
ApplyThen(c, kind) ==
    /\ calls[c].log = <<>>
    /\ PromiseAll(calls[c].argv).state = "fulfilled"
    /\ LET args == PromiseAll(calls[c].argv).val.items
       IN  calls' = [calls EXCEPT ![c].log =
                        <<[stage |-> 0, args |-> args, out |-> Outcome(kind, args)]>>]
    /\ UNCHANGED <<fut, api, boundArgs, liftArgs, nFuncs, arrVars, auxVars>>

\* compose recovering from a failure of the first stage before the fold
composeInitialRecovered(firstPromise) ==
    IF firstPromise.state = "rejected" THEN FulfilledP(firstPromise.val) ELSE firstPromise

\* compose hands firstPromise to when.reduce as the initial value
composeInitial(firstPromise) == firstPromise

\* the reducer calling func.call(arg): arg becomes `this`, func gets no argument
composeReducerAsThis(arg) == <<>>

\* compose's reducer: function(arg, func) { return func.call(thisArg, arg) }
composeReducer(arg) == arg.items

\* when.reduce: when(promises, function(array) { args.unshift(array);
\*   return Promise.reduce.apply(Promise, args) }): the callback runs
reduce(c) ==
    /\ calls[c].via = "compose"
    /\ ~calls[c].reducing
    /\ calls' = [calls EXCEPT ![c].reducing = TRUE]
    /\ UNCHANGED <<fut, api, boundArgs, liftArgs, nFuncs, arrVars, auxVars>>

\* Promise.reduce (lib/array): the accumulator after the steps made so far;
\* it starts as the initial value
Accumulator(c) ==
    IF calls[c].steps = <<>>
    THEN composeInitial(_apply(calls[c].argv, calls[c].log))
    ELSE ThenResult(calls[c].steps[Len(calls[c].steps)].out)

\* number of functions of `funcs` the fold has consumed
Consumed(c) == Len(calls[c].steps)

\* Promise.reduce: one fold step, made once the accumulator has fulfilled
ReduceStep(c, kind) ==
    /\ calls[c].reducing
    /\ Accumulator(c).state = "fulfilled"
    /\ Consumed(c) < nFuncs
    /\ LET args == composeReducer(Accumulator(c).val)
       IN  calls' = [calls EXCEPT ![c].steps =
                        Append(@, [stage |-> Consumed(c) + 1, args |-> args,
                                   out |-> Outcome(kind, args)])]
    /\ UNCHANGED <<fut, api, boundArgs, liftArgs, nFuncs, arrVars, auxVars>>

\* the promise Promise.reduce returns
PromiseReduce(c) ==
    IF ~calls[c].reducing THEN PendingP
    ELSE IF Accumulator(c).state = "rejected" THEN Accumulator(c)
    ELSE IF Accumulator(c).state = "fulfilled" /\ Consumed(c) = nFuncs THEN Accumulator(c)
    ELSE PendingP

\* the promise the call returned to its caller
Returned(c) ==
    IF calls[c].via = "compose" THEN PromiseReduce(c)
    ELSE _apply(calls[c].argv, calls[c].log)

\* the returned promise settles, in a later turn
ResSettle(c) ==
    /\ calls[c].res.state = "pending"
    /\ Returned(c).state # "pending"
    /\ calls' = [calls EXCEPT ![c].res = Returned(c)]
    /\ UNCHANGED <<fut, api, boundArgs, liftArgs, nFuncs, arrVars, auxVars>>

InitFn ==
    /\ fut = [i \in FutureIds |-> [state |-> "pending", val |-> 0, t |-> 0]]
    /\ api \in {"lift", "call", "apply", "compose"}
    /\ boundArgs \in IF api = "lift" THEN SeqsUpTo(Args, MaxBound) ELSE {<<>>}
    /\ liftArgs = boundArgs
    /\ nFuncs \in IF api = "compose" THEN 0..MaxFuncs ELSE {0}
    /\ calls = <<>>
    /\ op = "none" /\ inputs = <<>> /\ howMany = 0
    /\ outer = PendingP /\ racing = FALSE /\ result = PendingP
    /\ initial = [given |-> FALSE, a |-> Bare(0)] /\ trace = <<>>
    /\ deferreds = <<>> /\ probes = <<>>

NextFn ==
    \/ \E callArgs \in SeqsUpTo(Args, MaxCallArgs) : lift(callArgs)
    \/ \E callArgs \in SeqsUpTo(Args, MaxCallArgs) : call(callArgs)
    \/ \E hasArgs \in BOOLEAN, promisedArgs \in SeqsUpTo(Args, MaxCallArgs) :
          apply(hasArgs, promisedArgs)
    \/ \E callArgs \in SeqsUpTo(Args, MaxCallArgs) : compose(callArgs)
    \/ \E i \in FutureIds, st \in {"fulfilled", "rejected"} : SettleFuture(i, st)
    \/ \E c \in 1..Len(calls), kind \in OutKinds : ApplyThen(c, kind)
    \/ \E c \in 1..Len(calls) : reduce(c)
    \/ \E c \in 1..Len(calls), kind \in OutKinds : ReduceStep(c, kind)
    \/ \E c \in 1..Len(calls) : ResSettle(c)

SpecFn == InitFn /\ [][NextFn]_vars

(* ------------------ Promise.any, Promise.some (lib/array) -------------- *)
\* element i settled before element j; elements settled together (bare
\* values, one future held twice) are taken in index order
Before(array, i, j) ==
    \/ TimeOf(array[i]) < TimeOf(array[j])
    \/ TimeOf(array[i]) = TimeOf(array[j]) /\ i < j

RECURSIVE InSettlementOrder(_, _)
InSettlementOrder(array, S) ==
    IF S = {} THEN <<>>
    ELSE LET i == CHOOSE k \in S : \A j \in S \ {k} : Before(array, k, j)
         IN  <<i>> \o InSettlementOrder(array, S \ {i})

\* the values (reasons) of the elements in state st, in settlement order
SettledAs(array, st) ==
    LET o == InSettlementOrder(array, {i \in 1..Len(array) : Resolve(array[i]).state = st})
    IN  [k \in 1..Len(o) |-> Resolve(array[o[k]]).val.items[1]]

\* Fulfills once n elements have fulfilled, rejects once that cannot happen
\* any more, i.e. once (N - n) + 1 elements have rejected.
PromiseSome(array, n) ==
    LET toReject == (Len(array) - n) + 1
        winners  == SettledAs(array, "fulfilled")
        losers   == SettledAs(array, "rejected")
    IN  IF n <= 0 THEN FulfilledP(List(<<>>))
        ELSE IF toReject <= 0 THEN RejectedP(List(<<>>))
        ELSE IF Len(winners) >= n THEN FulfilledP(List(SubSeq(winners, 1, n)))
        ELSE IF Len(losers) >= toReject THEN RejectedP(List(SubSeq(losers, 1, toReject)))
        ELSE PendingP

\* Fulfills with the first value fulfilled, rejects once every element has
\* rejected, with the reasons index-aligned.
PromiseAny(array) ==
    IF SettledAs(array, "fulfilled") # <<>>
    THEN FulfilledP(Scalar(SettledAs(array, "fulfilled")[1]))
    ELSE IF \A i \in 1..Len(array) : Resolve(array[i]).state = "rejected"
    THEN RejectedP(List([i \in 1..Len(array) |-> Resolve(array[i]).val.items[1]]))
    ELSE PendingP

(* ----------------------- Promise.settle (lib/array) -------------------- *)
\* the array of outcome descriptors: descriptor i is {state, value} or
\* {state, reason} of element i
Snapshot(states, items) == [list |-> TRUE, items |-> items, states |-> states]

\* Fulfills, once every element has settled, with their descriptors.
PromiseSettle(array) ==
    IF \A i \in 1..Len(array) : Resolve(array[i]).state # "pending"
    THEN FulfilledP(Snapshot([i \in 1..Len(array) |-> Resolve(array[i]).state],
                             [i \in 1..Len(array) |-> Resolve(array[i]).val.items[1]]))
    ELSE PendingP

(* -------------- Promise.reduce, Promise.reduceRight (lib/array) -------- *)
\* the reason of the rejection a fold of no element and no initial value ends in
TypeErrorVal == -1

NoInitial == [given |-> FALSE, a |-> Bare(0)]

\* the indices of the array in the order the fold visits them
FoldOrder(fc) ==
    [k \in 1..Len(fc.array) |-> IF fc.dir = "left" THEN k ELSE Len(fc.array) + 1 - k]

\* the indices f is invoked for: all of them, or all but the one that seeds
\* the accumulator when no initial value is given
FoldTodo(fc) ==
    IF fc.init.given \/ fc.array = <<>> THEN FoldOrder(fc) ELSE Tail(FoldOrder(fc))

\* the accumulator after the steps made so far
FoldAcc(fc) ==
    IF trace # <<>> THEN ThenResult(trace[Len(trace)].out)
    ELSE IF fc.init.given THEN Resolve(fc.init.a)
    ELSE IF fc.array # <<>> THEN Resolve(fc.array[FoldOrder(fc)[1]])
    ELSE RejectedP(Scalar(TypeErrorVal))

\* the element the next step folds in
FoldNext(fc) == fc.array[FoldTodo(fc)[Len(trace) + 1]]

\* Folds strictly in sequence: a step awaits the accumulator and the current
\* element, then invokes f(accumulated, currentValue, index, length).
PromiseFold(fc) ==
    IF FoldAcc(fc).state # "fulfilled" THEN FoldAcc(fc)
    ELSE IF Len(trace) = Len(FoldTodo(fc)) THEN FoldAcc(fc)
    ELSE IF Resolve(FoldNext(fc)).state = "rejected" THEN Resolve(FoldNext(fc))
    ELSE PendingP

(* ------------------------- Promise.map (lib/array) --------------------- *)
\* the invocation of mapFunc for element i, if it was made
Mapped(i) == {k \in 1..Len(trace) : trace[k].idx = i}

\* When a failure happened: settlements and invocations interleave, an
\* invocation made after t settlements falls between settlement t and t + 1.
ElementFailedAt(array, i) == 2 * TimeOf(array[i])
MappingFailedAt(k) ==
    IF trace[k].out.kind = "ret" /\ 2 * TimeOf(trace[k].out.a) > 2 * trace[k].t + 1
    THEN 2 * TimeOf(trace[k].out.a) ELSE 2 * trace[k].t + 1

\* Fulfills with the index-aligned mapped values, rejects with the first
\* failure of an element or of mapFunc.
PromiseMap(array) ==
    LET n        == Len(array)
        badElems == {i \in 1..n : Resolve(array[i]).state = "rejected"}
        badMaps  == {k \in 1..Len(trace) : ThenResult(trace[k].out).state = "rejected"}
        failures == {[at |-> ElementFailedAt(array, i) * (n + 1),
                      reason |-> Resolve(array[i]).val] : i \in badElems}
                    \cup {[at |-> MappingFailedAt(k) * (n + 1) + k,
                           reason |-> ThenResult(trace[k].out).val] : k \in badMaps}
    IN  IF failures # {}
        THEN RejectedP((CHOOSE x \in failures : \A y \in failures : x.at <= y.at).reason)
        ELSE IF \A i \in 1..n : /\ Mapped(i) # {}
                                 /\ \A k \in Mapped(i) : ThenResult(trace[k].out).state = "fulfilled"
        THEN FulfilledP(List([i \in 1..n |->
                 ThenResult(trace[CHOOSE k \in Mapped(i) : TRUE].out).val.items[1]]))
        ELSE PendingP

(* ------------------------- when.js: combinators ------------------------ *)
MaxLen  == 3    \* length of the array all, any, some, settle and join are given
MaxFold == 2    \* length of the array map, reduce and reduceRight are given

FoldOps == {"reduce", "reduceRight"}

Ops == {"all", "any", "some", "settle", "join", "map"} \cup FoldOps

\* all handing the wrong aggregator to `when`
allAsAny(array) == PromiseAny(array)

\* all(promises): when(promises, Promise.all)
all(array) == PromiseAll(array)

\* any written as a race for one winner
anyAsSome(array) == PromiseSome(array, 1)

\* any(promises): when(promises, Promise.any)
any(array) == PromiseAny(array)

\* some losing count of the winners it was asked for
someOffByOne(array, n) == PromiseSome(array, n + 1)

\* some(promises, howMany):
\*   when(promises, function(array) { return Promise.some(array, howMany) })
some(array, n) == PromiseSome(array, n)

\* join(...promises): all(slice.call(arguments))
join(arguments) == all(arguments)

\* settle short-circuiting like all
settleAsAll(array) == PromiseAll(array)

\* settle(promises): when(promises, Promise.settle)
settle(array) == PromiseSettle(array)

\* map(promises, mapFunc):
\*   when(promises, function(promises) { return Promise.map(promises, mapFunc) })
map(array) == PromiseMap(array)

\* reduce losing the initial value: args = slice.call(arguments, 1, 2)
whenReduceUnseeded(array, init) == [array |-> array, dir |-> "left", init |-> NoInitial]

\* reduce(promises, f, initialValue): args = slice.call(arguments, 1);
\*   when(promises, function(array) { args.unshift(array);
\*     return Promise.reduce.apply(Promise, args) })
whenReduce(array, init) == [array |-> array, dir |-> "left", init |-> init]

\* reduceRight handing the array to Promise.reduce
reduceRightAsReduce(array, init) == [array |-> array, dir |-> "left", init |-> init]

\* reduceRight(promises, f, initialValue): the same with Promise.reduceRight
reduceRight(array, init) == [array |-> array, dir |-> "right", init |-> init]

\* the fold the callback of reduce or reduceRight starts
FoldCall == IF op = "reduce" THEN whenReduce(inputs, initial) ELSE reduceRight(inputs, initial)

\* the promise the onFulfilled callback of the combinator returns
OnFulfilled(array) ==
    CASE op = "all"    -> all(array)
      [] op = "any"    -> any(array)
      [] op = "some"   -> some(array, howMany)
      [] op = "settle" -> settle(array)
      [] op = "join"   -> join(array)
      [] op = "map"    -> map(array)
      [] op \in FoldOps -> PromiseFold(FoldCall)

\* when(promiseOrValue, ...): resolve(promiseOrValue)
when(isFuture) ==
    [future |-> isFuture, state |-> IF isFuture THEN "pending" ELSE "fulfilled",
     val |-> Scalar(0)]

\* the future given as `promises` fulfills with the array, or rejects
SettleOuter(st, r) ==
    /\ outer.state = "pending"
    /\ outer' = [outer EXCEPT !.state = st,
                              !.val = IF st = "rejected" THEN Scalar(r) ELSE @]
    /\ UNCHANGED <<fut, fnVars, op, inputs, howMany, racing, result, foldVars, auxVars>>

\* then(onFulfilled): the callback runs with the array
WhenFulfilled ==
    /\ outer.state = "fulfilled"
    /\ ~racing
    /\ racing' = TRUE
    /\ UNCHANGED <<fut, fnVars, op, inputs, howMany, outer, result, foldVars, auxVars>>

\* `when` given an onRejected that hands the reason on as a value
WhenRejectedRecovered ==
    /\ outer.state = "rejected"
    /\ result.state = "pending"
    /\ result' = FulfilledP(outer.val)
    /\ UNCHANGED <<fut, fnVars, op, inputs, howMany, outer, racing, foldVars, auxVars>>

\* then(onFulfilled) with no onRejected: the rejection passes through
WhenRejected ==
    /\ outer.state = "rejected"
    /\ result.state = "pending"
    /\ result' = RejectedP(outer.val)
    /\ UNCHANGED <<fut, fnVars, op, inputs, howMany, outer, racing, foldVars, auxVars>>

\* the returned promise settled by the callback of every element: no single
\* settlement
ResultSettleRace ==
    /\ racing
    /\ \E i \in 1..Len(inputs) :
           /\ Resolve(inputs[i]).state # "pending"
           /\ result' = Resolve(inputs[i])
    /\ UNCHANGED <<fut, fnVars, op, inputs, howMany, outer, racing, foldVars, auxVars>>

\* the returned promise takes the state of the one the callback returned
ResultSettle ==
    /\ racing
    /\ result.state = "pending"
    /\ OnFulfilled(inputs).state # "pending"
    /\ result' = OnFulfilled(inputs)
    /\ UNCHANGED <<fut, fnVars, op, inputs, howMany, outer, racing, foldVars, auxVars>>

\* Promise.reduce / Promise.reduceRight: one step of the fold, f is invoked
FoldStep(kind) ==
    /\ op \in FoldOps
    /\ racing
    /\ Len(trace) < Len(FoldTodo(FoldCall))
    /\ FoldAcc(FoldCall).state = "fulfilled"
    /\ Resolve(FoldNext(FoldCall)).state = "fulfilled"
    /\ LET i    == FoldTodo(FoldCall)[Len(trace) + 1]
           args == <<FoldAcc(FoldCall).val.items[1],
                     Resolve(FoldNext(FoldCall)).val.items[1], i - 1, Len(inputs)>>
       IN  trace' = Append(trace, [idx |-> i, args |-> args,
                                   out |-> Outcome(kind, args), t |-> Clock])
    /\ UNCHANGED <<fut, fnVars, op, inputs, howMany, outer, racing, result, initial, auxVars>>

\* Promise.map: mapFunc is invoked for an element that has fulfilled
MapStep(i, kind) ==
    /\ op = "map"
    /\ racing
    /\ i \in 1..Len(inputs)
    /\ Mapped(i) = {}
    /\ Resolve(inputs[i]).state = "fulfilled"
    /\ LET args == Resolve(inputs[i]).val.items
       IN  trace' = Append(trace, [idx |-> i, args |-> args,
                                   out |-> Outcome(kind, args), t |-> Clock])
    /\ UNCHANGED <<fut, fnVars, op, inputs, howMany, outer, racing, result, initial, auxVars>>

InitArr ==
    /\ fut = [i \in FutureIds |-> [state |-> "pending", val |-> 0, t |-> 0]]
    /\ api = "none" /\ boundArgs = <<>> /\ liftArgs = <<>> /\ nFuncs = 0 /\ calls = <<>>
    /\ op \in Ops
    /\ inputs \in SeqsUpTo(Args, IF op \in FoldOps \cup {"map"} THEN MaxFold ELSE MaxLen)
    /\ howMany \in IF op = "some" THEN -1..(MaxLen + 1) ELSE {0}
    /\ outer \in {when(isFuture) : isFuture \in IF op = "join" THEN {FALSE} ELSE BOOLEAN}
    /\ racing = FALSE
    /\ result = PendingP
    /\ initial \in IF op \in FoldOps
                    THEN {NoInitial} \cup {[given |-> TRUE, a |-> a] : a \in Args}
                    ELSE {NoInitial}
    /\ trace = <<>>
    /\ deferreds = <<>> /\ probes = <<>>

NextArr ==
    \/ \E i \in FutureIds, st \in {"fulfilled", "rejected"} : SettleFuture(i, st)
    \/ \E st \in {"fulfilled", "rejected"}, r \in Values : SettleOuter(st, r)
    \/ WhenFulfilled
    \/ WhenRejected
    \/ ResultSettle
    \/ \E kind \in OutKinds : FoldStep(kind)
    \/ \E i \in 1..MaxFold, kind \in OutKinds : MapStep(i, kind)

SpecArr == InitArr /\ [][NextArr]_vars

(* ------------------------------ when.js: defer ------------------------- *)
MaxDeferred    == 2    \* pairs made by defer() in one run
MaxHandleCalls == 3    \* calls of resolve, reject and notify in one run

Handles == {"resolve", "reject", "notify"}
NoCall  == [h |-> "none", x |-> 0]

\* the resolver functions the promise constructor hands to its callback: they
\* act on the promise while it is pending and do nothing, silently, afterwards
resolvePending(p, x) ==
    IF p.promise.state = "pending"
    THEN [p EXCEPT !.promise = FulfilledP(Scalar(x))] ELSE p

rejectPending(p, x) ==
    IF p.promise.state = "pending"
    THEN [p EXCEPT !.promise = RejectedP(Scalar(x))] ELSE p

notifyPending(p, x) ==
    IF p.promise.state = "pending"
    THEN [p EXCEPT !.progress = @ + 1] ELSE p

\* every pair's handles bound to the resolvers of the first pair's promise
makeDeferredShared(d) == 1

\* makeDeferred stores the resolvers of the promise under construction in the
\* `deferred` object of the same defer() call: the handles of pair d act on
\* the promise of pair d
makeDeferred(d) == d

defer ==
    /\ Len(deferreds) < MaxDeferred
    /\ deferreds' = Append(deferreds,
           [promise |-> PendingP, progress |-> 0,
            resolver |-> makeDeferred(Len(deferreds) + 1),
            calls |-> 0, last |-> NoCall])
    /\ UNCHANGED <<fut, fnVars, arrVars, probes>>

HandleCalls == Sum([d \in 1..Len(deferreds) |-> deferreds[d].calls])

\* a call d.resolve(x), d.reject(x) or d.notify(x) by the holder of pair d
Handle(d, h, x) ==
    /\ HandleCalls < MaxHandleCalls
    /\ LET t      == deferreds[d].resolver
           logged == [deferreds EXCEPT ![d].calls = @ + 1,
                                       ![d].last = [h |-> h, x |-> x]]
       IN deferreds' = [logged EXCEPT ![t] =
              CASE h = "resolve" -> resolvePending(@, x)
                [] h = "reject"  -> rejectPending(@, x)
                [] h = "notify"  -> notifyPending(@, x)]
    /\ UNCHANGED <<fut, fnVars, arrVars, probes>>

resolve(d, x) == Handle(d, "resolve", x)
reject(d, x)  == Handle(d, "reject", x)
notify(d, x)  == Handle(d, "notify", x)

\* nothing of function.js or of the combinators is in use
Quiet ==
    /\ fut = [i \in FutureIds |-> [state |-> "pending", val |-> 0, t |-> 0]]
    /\ api = "none" /\ boundArgs = <<>> /\ liftArgs = <<>> /\ nFuncs = 0
    /\ calls = <<>>
    /\ op = "none" /\ inputs = <<>> /\ howMany = 0
    /\ outer = PendingP /\ racing = FALSE /\ result = PendingP
    /\ initial = [given |-> FALSE, a |-> Bare(0)] /\ trace = <<>>

InitDefer == Quiet /\ deferreds = <<>> /\ probes = <<>>

NextDefer ==
    \/ defer
    \/ \E d \in 1..Len(deferreds), x \in Values : resolve(d, x)
    \/ \E d \in 1..Len(deferreds), x \in Values : reject(d, x)
    \/ \E d \in 1..Len(deferreds), x \in Values : notify(d, x)

SpecDefer == InitDefer /\ [][NextDefer]_vars

(* -------------------------- when.js: isPromiseLike --------------------- *)
MaxProbes == 2    \* calls of isPromiseLike in one run

\* what an own or inherited `then` property of an object can be
ThenKinds == {"absent", "function", "number", "null", "object"}

\* JavaScript values: type (null told apart from objects), the primitive's
\* value, and the `then` property; a primitive has none
Primitive(type, v) == [type |-> type, v |-> v, then |-> "absent"]
JsNull         == Primitive("null", "null")
JsUndefined    == Primitive("undefined", "undefined")
JsBoolean(b)   == Primitive("boolean", IF b THEN "true" ELSE "false")
JsValues ==
    {JsNull, JsUndefined, JsBoolean(TRUE), JsBoolean(FALSE)}
    \cup {Primitive("number", v) : v \in {"0", "5", "NaN"}}
    \cup {Primitive("string", v) : v \in {"", "a"}}
    \cup {[type |-> ty, v |-> "", then |-> th] :
              ty \in {"object", "function"}, th \in ThenKinds}

\* ToBoolean, as && applies it to its left operand
Truthy(x) ==
    CASE x.type \in {"null", "undefined"} -> FALSE
      [] x.type = "boolean" -> x.v = "true"
      [] x.type = "number"  -> x.v \notin {"0", "NaN"}
      [] x.type = "string"  -> x.v # ""
      [] OTHER -> TRUE

\* typeof x.then
TypeofThen(x) ==
    CASE x.then = "absent"   -> "undefined"
      [] x.then = "function" -> "function"
      [] x.then = "number"   -> "number"
      [] OTHER -> "object"

\* x && typeof x.then === 'function': && yields its left operand when that is
\* falsy, and the comparison's boolean otherwise
isPromiseLike(x) ==
    IF Truthy(x) THEN JsBoolean(TypeofThen(x) = "function") ELSE x

callIsPromiseLike(x) ==
    /\ Len(probes) < MaxProbes
    /\ probes' = Append(probes, [x |-> x, returned |-> isPromiseLike(x)])
    /\ UNCHANGED <<fut, fnVars, arrVars, deferreds>>

InitLike == Quiet /\ deferreds = <<>> /\ probes = <<>>

NextLike == \E x \in JsValues : callIsPromiseLike(x)

SpecLike == InitLike /\ [][NextLike]_vars

(* ---------------- function.js and the combinators together ------------- *)
\* a run exercises one function of function.js or one combinator of when.js
Init == InitFn \/ InitArr

Next ==
    \/ api # "none" /\ NextFn
    \/ op # "none" /\ NextArr

Spec == Init /\ [][Next]_vars

(* --------------------------- claims: function.js ----------------------- *)
CallIds == 1..Len(calls)

\* the values a list of arguments is awaited to
Awaited(list) == [i \in 1..Len(list) |-> Resolve(list[i]).val.items[1]]

\* the arguments the caller meant func to receive
Intended(c) ==
    IF calls[c].via = "lift" THEN boundArgs \o calls[c].given ELSE calls[c].given

\* every invocation a call has made of a user function, in order
Invocations(c) == calls[c].log \o calls[c].steps

\* C1: every call of g = lift(func, ...boundArgs), the first and every later
\* one, invokes func at most once, with exactly the awaited boundArgs followed
\* by the awaited callArgs of that call, and g's result fulfills only with
\* what func returned.
C1_LiftPassesBoundThenCallArgs ==
    \A c \in CallIds :
        calls[c].via = "lift" =>
            /\ calls[c].func = FuncVal
            /\ Len(calls[c].log) <= 1
            /\ calls[c].log # <<>> => calls[c].log[1].args = Awaited(Intended(c))
            /\ calls[c].res.state = "fulfilled" =>
                   /\ calls[c].log # <<>>
                   /\ calls[c].log[1].out.kind = "ret"
                   /\ calls[c].res = Resolve(calls[c].log[1].out.a)

\* the reasons of the arguments of call c that have rejected
RejectedReasons(c) ==
    {Resolve(Intended(c)[i]).val :
        i \in {j \in 1..Len(Intended(c)) : Resolve(Intended(c)[j]).state = "rejected"}}

\* C2: for lift, call and apply, when an argument of the call is a future that
\* rejects, func is not invoked and the returned future, once settled, has
\* rejected with the reason of a rejecting argument of that call.
C2_RejectedArgumentRejectsCall ==
    \A c \in CallIds :
        (calls[c].via # "compose" /\ RejectedReasons(c) # {}) =>
            /\ calls[c].log = <<>>
            /\ calls[c].res.state # "fulfilled"
            /\ calls[c].res.state = "rejected" => calls[c].res.val \in RejectedReasons(c)

\* the promise for the result of the stage before fold step i
StageBefore(c, i) ==
    ThenResult(IF i = 1 THEN calls[c].log[1].out ELSE calls[c].steps[i - 1].out)

\* C3: a composed call runs its stages left to right: f receives the awaited
\* arguments, funcs[i] is invoked once, with the resolved result of the stage
\* before it, which has fulfilled, and the result fulfills with the resolved
\* value of the last stage (of f when there are no further functions).
C3_ComposePipesLeftToRight ==
    \A c \in CallIds :
        calls[c].via = "compose" =>
            /\ Len(calls[c].log) <= 1
            /\ Len(calls[c].steps) <= nFuncs
            /\ calls[c].log # <<>> => calls[c].log[1].args = Awaited(calls[c].given)
            /\ calls[c].steps # <<>> => calls[c].log # <<>>
            /\ \A i \in 1..Len(calls[c].steps) :
                   /\ calls[c].steps[i].stage = i
                   /\ StageBefore(c, i).state = "fulfilled"
                   /\ calls[c].steps[i].args = StageBefore(c, i).val.items
            /\ calls[c].res.state = "fulfilled" =>
                   /\ calls[c].log # <<>>
                   /\ Len(calls[c].steps) = nFuncs
                   /\ StageBefore(c, nFuncs + 1).state = "fulfilled"
                   /\ calls[c].res.val = StageBefore(c, nFuncs + 1).val

C3_Witness ==
    \E c \in CallIds :
        /\ calls[c].via = "compose"
        /\ nFuncs = MaxFuncs
        /\ Len(calls[c].steps) = nFuncs
        /\ calls[c].res.state = "fulfilled"
        /\ calls[c].steps[1].out.a.fut
        /\ calls[c].steps[1].args # calls[c].log[1].args

\* C4: when a stage of a composed call throws, or returns a future that
\* rejects, with reason r, no later stage is invoked and the result, once
\* settled, has rejected with r.
C4_ComposeStopsAtFailingStage ==
    \A c \in CallIds :
        calls[c].via = "compose" =>
            \A k \in 1..Len(Invocations(c)) :
                ThenResult(Invocations(c)[k].out).state = "rejected" =>
                    /\ k = Len(Invocations(c))
                    /\ calls[c].res.state # "fulfilled"
                    /\ calls[c].res.state = "rejected" =>
                           calls[c].res.val = ThenResult(Invocations(c)[k].out).val
                    /\ calls[c].reducing =>
                           Returned(c) = ThenResult(Invocations(c)[k].out)

C4_Witness ==
    \E c \in CallIds :
        /\ calls[c].via = "compose"
        /\ nFuncs = MaxFuncs
        /\ Len(calls[c].steps) = 1
        /\ ThenResult(calls[c].steps[1].out).state = "rejected"
        /\ calls[c].steps[1].out.kind = "ret"
        /\ calls[c].res = ThenResult(calls[c].steps[1].out)

\* C5: when a user function (func of lift, call or apply, or a stage of a
\* composed call) throws e, the call has still returned a future, and that
\* future rejects with e.
C5_ThrowBecomesRejection ==
    \A c \in CallIds :
        \A k \in 1..Len(Invocations(c)) :
            Invocations(c)[k].out.kind = "throw" =>
                /\ calls[c].res.state # "fulfilled"
                /\ calls[c].res.state = "rejected" =>
                       calls[c].res.val = Scalar(Invocations(c)[k].out.a.x)
                /\ (calls[c].via = "compose" => calls[c].reducing) =>
                       Returned(c) = RejectedP(Scalar(Invocations(c)[k].out.a.x))

C5_Witness ==
    \E c \in CallIds :
        /\ calls[c].via = "lift"
        /\ calls[c].log # <<>>
        /\ calls[c].log[1].out.kind = "throw"
        /\ calls[c].res = RejectedP(Scalar(calls[c].log[1].out.a.x))

(* --------------------------- claims: combinators ----------------------- *)
N == Len(inputs)

ElemState(i) == Resolve(inputs[i]).state
ElemVal(i)   == Resolve(inputs[i]).val.items[1]

FulfilledIdx == {i \in 1..N : ElemState(i) = "fulfilled"}
RejectedIdx  == {i \in 1..N : ElemState(i) = "rejected"}

\* the place of element i among the elements of S, in settlement order
RankIn(S, i) == 1 + Cardinality({j \in S : Before(inputs, j, i)})

\* the combinator has no step left to take until something else settles:
\* none of WhenFulfilled, WhenRejected and ResultSettle is enabled
Idle ==
    /\ ~(outer.state = "fulfilled" /\ ~racing)
    /\ ~(outer.state = "rejected" /\ result.state = "pending")
    /\ ~(racing /\ result.state = "pending" /\ OnFulfilled(inputs).state # "pending")

\* C6: all(inputs) fulfills if and only if every element fulfills, and then
\* with a sequence of length N whose i-th entry is the resolved value of
\* inputs[i], whatever the order of settlement (the empty sequence for N = 0).
C6_AllFulfillsIndexAligned ==
    op = "all" =>
        /\ result.state = "fulfilled" =>
               /\ FulfilledIdx = 1..N
               /\ result.val = List([i \in 1..N |-> ElemVal(i)])
        /\ (outer.state = "fulfilled" /\ Idle) =>
               (result.state = "fulfilled" <=> FulfilledIdx = 1..N)

C6_Witness ==
    /\ op = "all" /\ N = MaxLen
    /\ result.state = "fulfilled"
    /\ \E i, j \in 1..N :
           /\ i < j /\ inputs[i].fut /\ inputs[j].fut
           /\ TimeOf(inputs[j]) < TimeOf(inputs[i])
           /\ ElemVal(i) # ElemVal(j)
    /\ \E i \in 1..N : ~inputs[i].fut

\* C7: all(inputs) rejects with the reason of the element that rejected first
\* in time, as soon as one element has rejected and without waiting for the
\* others; an element settling later does not change the result.
C7_AllRejectsWithFirstRejection ==
    (op = "all" /\ outer.state = "fulfilled") =>
        /\ result.state = "rejected" =>
               \E i \in RejectedIdx :
                   /\ \A j \in RejectedIdx : TimeOf(inputs[i]) <= TimeOf(inputs[j])
                   /\ result.val = Scalar(ElemVal(i))
        /\ (Idle /\ RejectedIdx # {}) => result.state = "rejected"

C7_Witness ==
    /\ op = "all" /\ outer.state = "fulfilled"
    /\ result.state = "rejected"
    /\ \E i, j \in RejectedIdx :
           /\ i < j
           /\ TimeOf(inputs[j]) < TimeOf(inputs[i])
           /\ ElemVal(i) # ElemVal(j)
           /\ result.val = Scalar(ElemVal(j))

\* C8: some(inputs, howMany) with 1 <= howMany <= N stays pending until howMany
\* elements have fulfilled, and then fulfills with those values in settlement
\* order, or until (N - howMany) + 1 elements have rejected, and then rejects
\* with those reasons in settlement order; it never rejects earlier.
C8_SomeSettlesAtThreshold ==
    (op = "some" /\ 1 <= howMany /\ howMany <= N /\ outer.state = "fulfilled") =>
        /\ result.state = "fulfilled" =>
               /\ Cardinality(FulfilledIdx) >= howMany
               /\ result.val.list
               /\ Len(result.val.items) = howMany
               /\ \A i \in FulfilledIdx :
                      RankIn(FulfilledIdx, i) <= howMany =>
                          result.val.items[RankIn(FulfilledIdx, i)] = ElemVal(i)
        /\ result.state = "rejected" =>
               /\ Cardinality(RejectedIdx) >= (N - howMany) + 1
               /\ result.val.list
               /\ Len(result.val.items) = (N - howMany) + 1
               /\ \A i \in RejectedIdx :
                      RankIn(RejectedIdx, i) <= (N - howMany) + 1 =>
                          result.val.items[RankIn(RejectedIdx, i)] = ElemVal(i)
        /\ Idle =>
               (result.state = "pending" <=>
                    /\ Cardinality(FulfilledIdx) < howMany
                    /\ Cardinality(RejectedIdx) < (N - howMany) + 1)

C8_Witness ==
    /\ op = "some" /\ 1 <= howMany /\ howMany <= N /\ outer.state = "fulfilled"
    /\ result.state = "rejected"
    /\ Len(result.val.items) = 2
    /\ Cardinality(RejectedIdx) = 2
    /\ \E i, j \in RejectedIdx :
           i < j /\ TimeOf(inputs[j]) < TimeOf(inputs[i]) /\ ElemVal(i) # ElemVal(j)
    /\ \E i \in 1..N : ElemState(i) = "fulfilled"

\* C9 as stated: some(inputs, howMany) with howMany <= 0 fulfills with the
\* empty sequence without waiting on anything, the outer inputs future
\* included: whenever it has no step left to take, it has fulfilled with [].
C9_SomeZeroWaitsForNothing ==
    (op = "some" /\ howMany <= 0 /\ Idle) => result = FulfilledP(List(<<>>))

\* C9 amended: some(inputs, howMany) with howMany <= 0 waits for the outer
\* inputs only: while the outer future is pending the result is pending, if
\* it rejects the result rejects with its reason, and once it has fulfilled
\* the result fulfills with the empty sequence whatever the state of the
\* elements.
C9_SomeZeroWaitsForOuterOnly ==
    (op = "some" /\ howMany <= 0) =>
        /\ outer.state = "pending" => result.state = "pending"
        /\ result.state = "fulfilled" => result.val = List(<<>>)
        /\ result.state = "rejected" => outer.state = "rejected" /\ result.val = outer.val
        /\ (outer.state = "fulfilled" /\ Idle) => result = FulfilledP(List(<<>>))

C9_Witness ==
    /\ op = "some" /\ howMany <= 0
    /\ outer.future
    /\ N = MaxLen
    /\ \A i \in 1..N : ElemState(i) = "pending"
    /\ result = FulfilledP(List(<<>>))

\* C10: any(inputs) over N >= 1 elements fulfills with the value of the
\* element that fulfilled first in time; it rejects only once all N elements
\* have rejected, with the N reasons index-aligned to the inputs; one
\* fulfilled element prevents rejection.
C10_AnyFirstFulfilledWins ==
    (op = "any" /\ N >= 1 /\ outer.state = "fulfilled") =>
        /\ result.state = "fulfilled" =>
               \E i \in FulfilledIdx :
                   /\ RankIn(FulfilledIdx, i) = 1
                   /\ result.val = Scalar(ElemVal(i))
        /\ result.state = "rejected" =>
               /\ RejectedIdx = 1..N
               /\ result.val = List([i \in 1..N |-> ElemVal(i)])
        /\ FulfilledIdx # {} => result.state # "rejected"
        /\ (Idle /\ FulfilledIdx # {}) => result.state = "fulfilled"

C10_Witness ==
    /\ op = "any" /\ N >= 2 /\ outer.state = "fulfilled"
    /\ result.state = "rejected"
    /\ \E i, j \in 1..N :
           i < j /\ TimeOf(inputs[j]) < TimeOf(inputs[i]) /\ ElemVal(i) # ElemVal(j)

\* C11: when the outer inputs is a sequence, or a future that fulfills,
\* settle(inputs) never rejects; it fulfills only once all N elements have
\* settled, with N descriptors, the i-th being the state and the value or
\* reason of inputs[i].
C11_SettleNeverRejects ==
    (op = "settle" /\ outer.state # "rejected") =>
        /\ result.state # "rejected"
        /\ result.state = "fulfilled" =>
               /\ FulfilledIdx \cup RejectedIdx = 1..N
               /\ result.val = Snapshot([i \in 1..N |-> ElemState(i)],
                                        [i \in 1..N |-> ElemVal(i)])
        /\ (outer.state = "fulfilled" /\ Idle /\ FulfilledIdx \cup RejectedIdx = 1..N) =>
               result.state = "fulfilled"

C11_Witness ==
    /\ op = "settle" /\ outer.future /\ N = MaxLen
    /\ result.state = "fulfilled"
    /\ \E i, j \in 1..N :
           /\ i < j
           /\ ElemState(i) = "rejected" /\ ElemState(j) = "fulfilled" /\ inputs[j].fut
           /\ TimeOf(inputs[j]) < TimeOf(inputs[i])

\* the fold has no step left to take until something else settles
FoldIdle ==
    /\ Idle
    /\ ~(/\ racing
         /\ Len(trace) < Len(FoldTodo(FoldCall))
         /\ FoldAcc(FoldCall).state = "fulfilled"
         /\ Resolve(FoldNext(FoldCall)).state = "fulfilled")

\* C12: reduce folds left to right and reduceRight right to left; f is invoked
\* for a step only after the result of the step before has settled (a future
\* f returned has fulfilled by then) and receives its value; after a step
\* that threw or rejected f is not invoked again and the result rejects with
\* that reason.
C12_FoldIsSequential ==
    op \in FoldOps =>
        /\ \A k \in 1..Len(trace) :
               trace[k].idx = (IF op = "reduce" THEN FoldTodo(whenReduce(inputs, initial))
                               ELSE FoldTodo([array |-> inputs, dir |-> "right",
                                              init |-> initial]))[k]
        /\ \A k \in 1..(Len(trace) - 1) :
               /\ ThenResult(trace[k].out).state = "fulfilled"
               /\ TimeOf(trace[k].out.a) <= trace[k + 1].t
               /\ trace[k + 1].args[1] = ThenResult(trace[k].out).val.items[1]
        /\ \A k \in 1..Len(trace) :
               ThenResult(trace[k].out).state = "rejected" =>
                   /\ k = Len(trace)
                   /\ result.state # "fulfilled"
                   /\ result.state = "rejected" => result.val = ThenResult(trace[k].out).val
                   /\ FoldIdle => result.state = "rejected"

C12_Witness ==
    /\ op = "reduceRight" /\ N = MaxFold /\ initial.given
    /\ Len(trace) = N
    /\ trace[1].idx = N
    /\ trace[1].out.a.fut
    /\ trace[1].t < TimeOf(trace[1].out.a)
    /\ result.state # "pending"

\* C13: when the outer inputs of all, any, some, settle, map, reduce or
\* reduceRight is a future that rejects with r, the result rejects with r, the
\* combinator's callback never runs on the elements and the user function
\* (mapFunc, f) is never invoked.
C13_OuterRejectionPropagates ==
    (op \in Ops /\ outer.state = "rejected") =>
        /\ ~racing
        /\ trace = <<>>
        /\ result.state # "fulfilled"
        /\ result.state = "rejected" => result.val = outer.val
        /\ Idle => result = RejectedP(outer.val)

C13_Witness ==
    /\ op \in FoldOps \cup {"map"}
    /\ N = MaxFold
    /\ \A i \in 1..N : ElemState(i) = "fulfilled"
    /\ outer.state = "rejected"
    /\ result = RejectedP(outer.val)

\* C20: in reduce and reduceRight given an initialValue that is a future, f is
\* not invoked for the first step before the initialValue has fulfilled, and
\* the first step receives its resolved value as accumulator; when it rejects
\* with r, f is never invoked and the result rejects with r.
C20_InitialValueIsAwaited ==
    (op \in FoldOps /\ initial.given) =>
        /\ trace # <<>> =>
               /\ Resolve(initial.a).state = "fulfilled"
               /\ TimeOf(initial.a) <= trace[1].t
               /\ trace[1].args[1] = Resolve(initial.a).val.items[1]
        /\ Resolve(initial.a).state = "rejected" =>
               /\ trace = <<>>
               /\ result.state # "fulfilled"
               /\ (result.state = "rejected" /\ outer.state = "fulfilled") =>
                      result.val = Resolve(initial.a).val
               /\ (outer.state = "fulfilled" /\ FoldIdle) =>
                      result = RejectedP(Resolve(initial.a).val)

C20_Witness ==
    /\ op = "reduce" /\ initial.given /\ initial.a.fut
    /\ N >= 1
    /\ trace # <<>>
    /\ trace[1].args[1] # ElemVal(1)
    /\ result.state = "fulfilled"

(* ------------------------ claims: function.js, again ------------------- *)
\* C17: apply(func, argsArray) does what a fresh lift(func) does when called
\* with the elements of argsArray: func is invoked at most once, with the
\* awaited elements in order; with the array omitted, with no argument.
C17_ApplyIsLiftWithoutBoundArgs ==
    \A c \in CallIds :
        calls[c].via = "apply" =>
            /\ calls[c].func = tryCall(liftClosureArgs(<<>>, calls[c].given)).func
            /\ calls[c].argv = tryCall(liftClosureArgs(<<>>, calls[c].given)).argv
            /\ Len(calls[c].log) <= 1
            /\ calls[c].log # <<>> => calls[c].log[1].args = Awaited(calls[c].given)
            /\ calls[c].res.state # "pending" =>
                   calls[c].res = _apply(calls[c].given, calls[c].log)

C17_Witness ==
    \E c \in CallIds :
        /\ calls[c].via = "apply"
        /\ Len(calls[c].given) = MaxCallArgs
        /\ calls[c].given[1].fut
        /\ calls[c].log # <<>>
        /\ calls[c].res.state = "fulfilled"

\* C18: func is never invoked in the step that makes the call: when call,
\* apply, a lifted or a composed function returns, its future is pending and
\* no user function has run, also when every argument is a bare value.
C18_FuncRunsInLaterTurn ==
    [][\A c \in 1..Len(calls') :
          c > Len(calls) =>
              /\ calls'[c].log = <<>>
              /\ calls'[c].steps = <<>>
              /\ calls'[c].res.state = "pending"]_vars

C18_Witness ==
    \E c \in CallIds :
        /\ calls[c].given # <<>>
        /\ \A i \in 1..Len(calls[c].argv) : ~calls[c].argv[i].fut
        /\ calls[c].log # <<>>
        /\ calls[c].res.state = "fulfilled"

\* C19: a call of g = lift(func, ...boundArgs) leaves the captured list of
\* bound arguments as it was, so that two calls of g with the same arguments
\* invoke func with the same arguments.
C19_LiftKeepsBoundArgs ==
    api = "lift" =>
        /\ liftArgs = boundArgs
        /\ \A c, d \in CallIds :
               (calls[c].given = calls[d].given /\ calls[c].log # <<>> /\ calls[d].log # <<>>)
                   => calls[c].log[1].args = calls[d].log[1].args

(* ------------------------ claims: every returned future ---------------- *)
\* C14: the future returned by a combinator or by a lifted, called, applied or
\* composed function makes at most one transition out of pending: once it has
\* settled, no step changes its state or its value or reason.
C14_SettlesOnce ==
    [][/\ result.state # "pending" => result' = result
       /\ \A c \in 1..Len(calls) :
              calls[c].res.state # "pending" => calls'[c].res = calls[c].res]_vars

C14_Witness ==
    /\ op = "any" /\ N = MaxLen
    /\ result.state = "fulfilled"
    /\ \E i, j \in 1..N :
           /\ result.val = Scalar(ElemVal(i))
           /\ TimeOf(inputs[i]) < TimeOf(inputs[j])
           /\ ElemVal(j) # ElemVal(i)
    /\ \E j \in 1..N : ElemState(j) = "rejected"

(* ------------------------------ claims: defer -------------------------- *)
\* C15: for a pair d = defer(), a call of d.resolve(x) or d.reject(x) while
\* d's future is pending settles it with x; a call of any handle of d after
\* that leaves the future's state and value or reason as they are; and no call
\* of a handle of d changes the future of another pair.
C15_DeferredPairSettlesOnceAlone ==
    [][\A d \in 1..Len(deferreds) :
          deferreds'[d].calls > deferreds[d].calls =>
              LET c   == deferreds'[d].last
                  was == deferreds[d].promise
                  now == deferreds'[d].promise
              IN /\ was.state # "pending" => now = was
                 /\ was.state = "pending" /\ c.h = "resolve"
                        => now = FulfilledP(Scalar(c.x))
                 /\ was.state = "pending" /\ c.h = "reject"
                        => now = RejectedP(Scalar(c.x))
                 /\ was.state = "pending" /\ c.h = "notify" => now = was
                 /\ \A e \in 1..Len(deferreds) :
                        e # d => deferreds'[e].promise = deferreds[e].promise]_vars

\* the second pair is fulfilled, a later reject with another value was
\* ignored, and the first pair is still pending
C15_Witness ==
    /\ Len(deferreds) = 2
    /\ deferreds[2].promise.state = "fulfilled"
    /\ deferreds[2].calls >= 2
    /\ deferreds[2].last.h = "reject"
    /\ Scalar(deferreds[2].last.x) # deferreds[2].promise.val
    /\ deferreds[1].promise.state = "pending"
    /\ deferreds[1].calls = 0

(* -------------------------- claims: isPromiseLike ---------------------- *)
IsObject(x) == x.type \in {"object", "function"}

\* C16: isPromiseLike(x) returns the boolean true when x is an object with a
\* callable then, and the boolean false for every other x.
C16_IsPromiseLikeReturnsBoolean ==
    \A p \in 1..Len(probes) :
        probes[p].returned =
            JsBoolean(IsObject(probes[p].x) /\ probes[p].x.then = "function")
====
